---- MODULE Spec2Model ----
(***************************************************************************)
(* Model of create_vcf_from_inca_csv.py: the script that loads a CSV of    *)
(* variant classifications, groups the dated rows by genomic coordinate,   *)
(* picks the latest classification of every group and writes a VCF.        *)
(*                                                                         *)
(* Text is a sequence of one-character strings, so that formatting and     *)
(* parsing are computed character by character.  A missing cell (pandas    *)
(* NaN) is the value NaN below; it is no text.                             *)
(***************************************************************************)
EXTENDS Integers, Sequences, FiniteSets, TLC

(***************************************************************************)
(* Bounds of the model.                                                    *)
(***************************************************************************)
MaxRows == 3
MaxLen == 4

(***************************************************************************)
(* Generic helpers on sequences and text.                                  *)
(***************************************************************************)
Range(s) == {s[i] : i \in 1..Len(s)}

\* Python's sep.join(parts)
RECURSIVE Join(_, _)
Join(parts, sep) ==
    IF parts = <<>> THEN <<>>
    ELSE IF Len(parts) = 1 THEN parts[1]
    ELSE parts[1] \o sep \o Join(Tail(parts), sep)

\* Python's text.split(sep) for a one-character separator
RECURSIVE SplitAcc(_, _, _)
SplitAcc(text, sep, cur) ==
    IF text = <<>> THEN <<cur>>
    ELSE IF Head(text) = sep THEN <<cur>> \o SplitAcc(Tail(text), sep, <<>>)
    ELSE SplitAcc(Tail(text), sep, Append(cur, Head(text)))

Split(text, sep) == SplitAcc(text, sep, <<>>)

\* decimal rendering of a natural number, as str(int) does
DigitChars == <<"0", "1", "2", "3", "4", "5", "6", "7", "8", "9">>

RECURSIVE Digits(_)
Digits(n) == IF n < 10 THEN <<DigitChars[n + 1]>>
             ELSE Digits(n \div 10) \o <<DigitChars[(n % 10) + 1]>>

IsDigit(c) == \E i \in 1..10 : DigitChars[i] = c

DigitValue(c) == (CHOOSE i \in 1..10 : DigitChars[i] = c) - 1

\* int(text) of a string of decimal digits
RECURSIVE ParseNat(_)
ParseNat(text) ==
    IF text = <<>> THEN 0
    ELSE 10 * ParseNat(SubSeq(text, 1, Len(text) - 1)) + DigitValue(text[Len(text)])

\* the sub-sequence of s at the positions in the set S, in the order of s
RECURSIVE SelectFrom(_, _, _)
SelectFrom(s, S, i) ==
    IF i > Len(s) THEN <<>>
    ELSE (IF i \in S THEN <<s[i]>> ELSE <<>>) \o SelectFrom(s, S, i + 1)

SelectAt(s, S) == SelectFrom(s, S, 1)

(***************************************************************************)
(* Cell values.                                                            *)
(***************************************************************************)
\* a missing cell; float('nan') in an object column
NaN == <<"NaN">>

\* a missing date
NaT == 0

\* str(value) as an f-string renders it: a missing cell prints as nan
Str(v) == IF v = NaN THEN <<"n", "a", "n">> ELSE v

\* Series.str.replace(old, new) on one cell; a missing cell stays missing
RECURSIVE ReplaceChar(_, _, _)
ReplaceChar(text, old, new) ==
    IF text = <<>> THEN <<>>
    ELSE (IF Head(text) = old THEN new ELSE <<Head(text)>>)
         \o ReplaceChar(Tail(text), old, new)

str_replace(v, old, new) == IF v = NaN THEN NaN ELSE ReplaceChar(v, old, new)

(***************************************************************************)
(* Series helpers of pandas used by the two functions of the script.       *)
(***************************************************************************)
\* Series.dropna()
dropna_series(series) == SelectAt(series, {i \in 1..Len(series) : series[i] # NaN})

\* Series.unique(): the distinct values in order of first appearance
RECURSIVE unique(_)
unique(series) ==
    IF series = <<>> THEN <<>>
    ELSE LET init == unique(SubSeq(series, 1, Len(series) - 1))
             last == series[Len(series)]
         IN IF last \in Range(init) THEN init ELSE Append(init, last)

CountOf(series, v) == Cardinality({i \in 1..Len(series) : series[i] = v})

\* Series.value_counts(): the missing values are left out, one (label, count)
\* entry per distinct label, sorted by count descending.  The sort is
\* Series.sort_values with its default kind, quicksort, which is not stable,
\* so the order among labels of equal count is not determined by the code:
\* value_counts is the set of the orders a build can produce.
value_counts(series) ==
    LET present == dropna_series(series)
        labels == unique(present)
        n == Len(labels)
        Perms == {p \in [1..n -> 1..n] : \A i, j \in 1..n : i # j => p[i] # p[j]}
    IN {[k \in 1..n |-> <<labels[p[k]], CountOf(present, labels[p[k]])>>] :
          p \in {q \in Perms : \A i \in 1..n - 1 :
                    CountOf(present, labels[q[i]]) >= CountOf(present, labels[q[i + 1]])}}

\* lines 12-13, for one outcome of value_counts
FormatCounts(counts) ==
    Join([k \in 1..Len(counts) |->
            Str(counts[k][1]) \o <<"(">> \o Digits(counts[k][2]) \o <<")">>],
         <<"|">>)

\* format_total_classifications: the strings the function can return
format_total_classifications(classifications) ==
    {FormatCounts(counts) : counts \in value_counts(classifications)}

\* aggregate_hgvs without the call of unique: a repeated value is repeated
aggregate_hgvs_no_unique(hgvs_series) == Join(dropna_series(hgvs_series), <<"|">>)

\* aggregate_hgvs
aggregate_hgvs(hgvs_series) == Join(unique(dropna_series(hgvs_series)), <<"|">>)

(***************************************************************************)
(* The table.  A row is one line of the CSV; index is its row label, which *)
(* dropna and groupby keep.                                                *)
(***************************************************************************)
AllColumns == {"chromosome", "start", "reference_allele", "alternate_allele",
               "hgvsc", "oncogenicity_classification", "date_last_evaluated",
               "specimen_id"}

\* line 36
required_columns == <<"date_last_evaluated", "oncogenicity_classification",
                      "chromosome", "hgvsc">>

\* line 100
chromosome_order == [i \in 1..22 |-> Digits(i)] \o << <<"X">>, <<"Y">> >>

\* the characters of coordinate cells, in code point order
CodePoints == <<" ", "0", "1", "2", "3", "4", "5", "6", "7", "8", "9",
                "A", "C", "G", "M", "T", "X", "Y">>

Ord(c) == CHOOSE i \in 1..Len(CodePoints) : CodePoints[i] = c

\* Python's a < b on two strings
RECURSIVE TextLess(_, _)
TextLess(a, b) ==
    IF b = <<>> THEN FALSE
    ELSE IF a = <<>> THEN TRUE
    ELSE IF Head(a) = Head(b) THEN TextLess(Tail(a), Tail(b))
    ELSE Ord(Head(a)) < Ord(Head(b))

Key(r) == <<r.chromosome, r.start, r.reference_allele, r.alternate_allele>>

\* groupby leaves out the rows with a missing key cell (dropna=True)
HasKey(r) == /\ r.chromosome # NaN
             /\ r.reference_allele # NaN
             /\ r.alternate_allele # NaN

KeyLess(k, l) ==
    \/ TextLess(k[1], l[1])
    \/ k[1] = l[1] /\ k[2] < l[2]
    \/ k[1] = l[1] /\ k[2] = l[2] /\ TextLess(k[3], l[3])
    \/ k[1] = l[1] /\ k[2] = l[2] /\ k[3] = l[3] /\ TextLess(k[4], l[4])

RECURSIVE SortedKeys(_)
SortedKeys(S) ==
    IF S = {} THEN <<>>
    ELSE LET m == CHOOSE k \in S : \A l \in S \ {k} : KeyLess(k, l)
         IN <<m>> \o SortedKeys(S \ {m})

\* line 57: the group keys, in the order the loop of line 71 visits them
groupby(frame) == SortedKeys({Key(frame[i]) : i \in {j \in 1..Len(frame) : HasKey(frame[j])}})

\* the rows of one group, in the order of the table
get_group(frame, key) ==
    SelectAt(frame, {i \in 1..Len(frame) : HasKey(frame[i]) /\ Key(frame[i]) = key})

Column(frame, name) == [i \in 1..Len(frame) |-> frame[i][name]]

\* idxmax giving the label of the last row that holds the maximum
idxmax_last(sub_df) ==
    LET last == CHOOSE i \in 1..Len(sub_df) :
                  /\ \A j \in 1..Len(sub_df) :
                       sub_df[j].date_last_evaluated <= sub_df[i].date_last_evaluated
                  /\ \A j \in (i + 1)..Len(sub_df) :
                       sub_df[j].date_last_evaluated < sub_df[i].date_last_evaluated
    IN sub_df[last].index

\* Series.idxmax(): the label of the first row that holds the maximum
idxmax(sub_df) ==
    LET first == CHOOSE i \in 1..Len(sub_df) :
                   /\ \A j \in 1..Len(sub_df) :
                        sub_df[j].date_last_evaluated <= sub_df[i].date_last_evaluated
                   /\ \A j \in 1..(i - 1) :
                        sub_df[j].date_last_evaluated < sub_df[i].date_last_evaluated
    IN sub_df[first].index

\* DataFrame.loc[label], the labels being unique
loc(sub_df, label) == sub_df[CHOOSE i \in 1..Len(sub_df) : sub_df[i].index = label]

\* lines 60-67
get_latest_entry(sub_df) == loc(sub_df, idxmax(sub_df))

\* lines 72-89, for one string total_classifications of line 77
AggregatedRow(group, total_classifications) ==
    LET latest_entry == get_latest_entry(group)
    IN [chromosome |-> latest_entry.chromosome,
        start |-> latest_entry.start,
        reference_allele |-> latest_entry.reference_allele,
        alternate_allele |-> latest_entry.alternate_allele,
        latest_classification |-> latest_entry.oncogenicity_classification,
        latest_date |-> latest_entry.date_last_evaluated,
        latest_sample_id |-> latest_entry.specimen_id,
        total_classifications |-> total_classifications,
        hgvs |-> aggregate_hgvs(Column(group, "hgvsc"))]

\* line 102: a value outside the categories becomes missing
Categorical(v) == IF v \in Range(chromosome_order) THEN v ELSE NaN

\* the position of a category; a missing value sorts last
CatCode(v) == IF v = NaN THEN Len(chromosome_order) + 1
              ELSE CHOOSE i \in 1..Len(chromosome_order) : chromosome_order[i] = v

\* the order of line 104
RowBefore(a, b) ==
    \/ CatCode(a.chromosome) < CatCode(b.chromosome)
    \/ CatCode(a.chromosome) = CatCode(b.chromosome) /\ a.start < b.start

\* insert row r after the rows that do not come after it
RECURSIVE InsertRow(_, _)
InsertRow(sorted, r) ==
    IF sorted = <<>> THEN <<r>>
    ELSE IF RowBefore(r, Head(sorted)) THEN <<r>> \o sorted
    ELSE <<Head(sorted)>> \o InsertRow(Tail(sorted), r)

\* the frame left in the order of the groups: the result of sort_values dropped
sort_values_dropped(rows) == rows

\* line 104: sort_values(by=['chromosome', 'start']), rows of equal key
\* keeping their order
RECURSIVE sort_values(_)
sort_values(rows) ==
    IF rows = <<>> THEN <<>>
    ELSE InsertRow(sort_values(SubSeq(rows, 1, Len(rows) - 1)), rows[Len(rows)])

\* strftime('%Y-%m-%d') of day d of January 2024
strftime(d) == <<"2", "0", "2", "4", "-", "0", "1", "-">>
               \o (IF d < 10 THEN <<"0">> ELSE <<>>) \o Digits(d)

\* lines 122-128
info_field(row) ==
    <<"L", "C", "=">> \o Str(row.latest_classification) \o <<";">>
    \o <<"L", "C", "D", "=">> \o strftime(row.latest_date) \o <<";">>
    \o <<"L", "C", "S", "=">> \o Str(row.latest_sample_id) \o <<";">>
    \o <<"T", "C", "=">> \o row.total_classifications \o <<";">>
    \o <<"H", "G", "V", "S", "=">> \o row.hgvs

Tab == "\t"

\* lines 129-132, without the trailing newline
body_line(row) ==
    Str(row.chromosome) \o <<Tab>> \o Digits(row.start) \o <<Tab, ".", Tab>>
    \o Str(row.reference_allele) \o <<Tab>> \o Str(row.alternate_allele)
    \o <<Tab, ".", Tab, ".", Tab>> \o info_field(row)

\* lines 110-118: a header line is its text; an ##INFO line is cut at its ID
InfoLine(id, rest) == <<"##INFO=<ID=", id, rest>>

vcf_header ==
    << <<"##fileformat=VCFv4.2">>,
       <<"##source=EG">>,
       <<"##reference=GRCh38">>,
       InfoLine(<<"L", "C">>, ",Number=1,Type=String,Description=\"Latest classification\">"),
       InfoLine(<<"L", "C", "D">>, ",Number=1,Type=String,Description=\"Latest classification date\">"),
       InfoLine(<<"L", "C", "S">>, ",Number=1,Type=String,Description=\"Latest classification sample ID\">"),
       InfoLine(<<"T", "C">>, ",Number=.,Type=String,Description=\"Total classifications with counts (including latest)\">"),
       InfoLine(<<"H", "G", "V", "S">>, ",Number=.,Type=String,Description=\"HGVS annotations\">"),
       <<"#CHROM\tPOS\tID\tREF\tALT\tQUAL\tFILTER\tINFO">> >>

(***************************************************************************)
(* The inputs of the model.                                                *)
(***************************************************************************)
DefaultRow == [chromosome |-> <<"Y">>, start |-> 1,
               reference_allele |-> <<"A">>, alternate_allele |-> <<"T">>,
               hgvsc |-> <<"c", "1">>, oncogenicity_classification |-> <<"P">>,
               date_last_evaluated |-> 1, specimen_id |-> <<"s", "1">>]

\* rows that differ in chromosome and position
OrderRows == {[DefaultRow EXCEPT !.chromosome = c, !.start = s] :
                c \in {<<"2">>, <<"1", "0">>, <<"Y">>, <<"M">>}, s \in {1, 2}}

\* rows of one variant that differ in date and in the record they come from
SelectRows == {[DefaultRow EXCEPT !.date_last_evaluated = d,
                                  !.oncogenicity_classification = e[1],
                                  !.specimen_id = e[2]] :
                 d \in {NaT, 1, 2},
                 e \in {<< <<"P">>, <<"s", "1">> >>, << <<"L", " ", "B">>, NaN >>}}

\* rows of one variant that differ in classification and hgvsc
TextRows == {[DefaultRow EXCEPT !.oncogenicity_classification = c, !.hgvsc = h] :
               c \in {<<"P">>, NaN},
               h \in {<<"c", "1">>, <<"c", "2">>, NaN}}

\* rows that differ in the cells of the key and in having a date
KeyRows == {[DefaultRow EXCEPT !.chromosome = c, !.reference_allele = r,
                               !.date_last_evaluated = d] :
              c \in {<<"Y">>, <<"Y", " ">>}, r \in {<<"A">>, NaN}, d \in {NaT, 1}}

\* the tables of at most n rows; a table draws its rows from one of the four
\* sets above
TablesOver(rows, n) == UNION {[1..k -> rows] : k \in 0..n}

Tables == TablesOver(OrderRows, MaxRows) \cup TablesOver(SelectRows, MaxRows)
          \cup TablesOver(TextRows, MaxRows) \cup TablesOver(KeyRows, MaxRows)

(***************************************************************************)
(* The state of one run of the script.                                     *)
(***************************************************************************)
VARIABLES
    pc,               \* the statement the script is at
    columns,          \* the columns of the CSV file
    csv,              \* the rows of the CSV file
    df,               \* the DataFrame df
    grouped,          \* the keys the loop of line 71 has yet to visit
    aggregated_data,  \* line 70
    aggregated_df,    \* line 91: its columns and its rows
    vcf_file,         \* the lines written to the output file
    file_opened,      \* whether line 108 has opened the output file
    stdout,           \* the messages printed
    exit_code,        \* the exit status of the process, once it has ended
    fn,               \* the function applied on its own, if any
    fn_arg,           \* its argument
    fn_result         \* its result

vars == <<pc, columns, csv, df, grouped, aggregated_data, aggregated_df,
          vcf_file, file_opened, stdout, exit_code, fn, fn_arg, fn_result>>

Running == "running"
NoFrame == [columns |-> {}, rows |-> <<>>]
NoCall == "none"

InitRun ==
    /\ pc = "load"
    /\ df = <<>>
    /\ grouped = <<>>
    /\ aggregated_data = <<>>
    /\ aggregated_df = NoFrame
    /\ vcf_file = <<>>
    /\ file_opened = FALSE
    /\ stdout = <<>>
    /\ exit_code = Running
    /\ fn = NoCall
    /\ fn_arg = <<>>
    /\ fn_result = <<>>

\* The script starts on a CSV file: either one with every column and a table
\* of at most MaxRows rows, or one with any subset of the columns; the cells
\* of an absent column are never read before the run ends, so such a file is
\* given the default row or no row.  The start cell is always present.
Init ==
    /\ InitRun
    /\ \/ columns = AllColumns /\ csv \in Tables
       \/ columns \in SUBSET AllColumns /\ csv \in TablesOver({DefaultRow}, 1)

FnUnchanged == UNCHANGED <<fn, fn_arg, fn_result>>

\* line 42
missing_columns == SelectAt(required_columns,
                            {i \in 1..Len(required_columns) : required_columns[i] \notin columns})

\* lines 45-47: the exception is printed and the process exits with status 1
ExitOnError(message) ==
    /\ stdout' = Append(stdout, <<"Error loading CSV file: ">> \o message)
    /\ exit_code' = 1
    /\ pc' = "exited"
    /\ UNCHANGED <<columns, csv, df, grouped, aggregated_data, aggregated_df,
                   vcf_file, file_opened>>
    /\ FnUnchanged

\* an exception outside the try block ends the process with a traceback
Crash(exception) ==
    /\ stdout' = Append(stdout, <<"Traceback: ", exception>>)
    /\ exit_code' = 1
    /\ pc' = "crashed"
    /\ UNCHANGED <<columns, csv, df, grouped, aggregated_data, aggregated_df,
                   vcf_file, file_opened>>
    /\ FnUnchanged

\* lines 31-35: read_csv raises when the parse_dates column is absent
LoadDateColumnAbsent ==
    /\ pc = "load"
    /\ "date_last_evaluated" \notin columns
    /\ ExitOnError(<<"Missing column provided to 'parse_dates': ", "date_last_evaluated">>)

\* lines 42-44
LoadMissingColumns ==
    /\ pc = "load"
    /\ "date_last_evaluated" \in columns
    /\ missing_columns # <<>>
    /\ ExitOnError(<<"Missing required columns: ">> \o Join([i \in 1..Len(missing_columns) |-> <<missing_columns[i]>>], <<", ">>))

\* lines 31-44, nothing raised
Load ==
    /\ pc = "load"
    /\ "date_last_evaluated" \in columns
    /\ missing_columns = <<>>
    /\ df' = [i \in 1..Len(csv) |->
                [name \in DOMAIN csv[i] \cup {"index"} |->
                    IF name = "index" THEN i - 1 ELSE csv[i][name]]]
    /\ pc' = "clean"
    /\ UNCHANGED <<columns, csv, grouped, aggregated_data, aggregated_df,
                   vcf_file, file_opened, stdout, exit_code>>
    /\ FnUnchanged

IsNumeric(text) == text # <<>> /\ \A i \in 1..Len(text) : IsDigit(text[i])

\* read_csv gives a column the object dtype when it is empty or holds a cell
\* that is no number; a column of numbers and missing cells is int64 or
\* float64, and has no .str accessor
ObjectDtype(series) ==
    \/ series = <<>>
    \/ \E i \in 1..Len(series) : series[i] # NaN /\ ~IsNumeric(series[i])

\* lines 50-51
CleanRow(r) ==
    [r EXCEPT !.oncogenicity_classification = str_replace(@, " ", <<"_">>),
              !.chromosome = str_replace(@, " ", <<>>)]

Clean ==
    /\ pc = "clean"
    /\ ObjectDtype(Column(df, "oncogenicity_classification"))
    /\ ObjectDtype(Column(df, "chromosome"))
    /\ df' = [i \in 1..Len(df) |-> CleanRow(df[i])]
    /\ pc' = "dropna"
    /\ UNCHANGED <<columns, csv, grouped, aggregated_data, aggregated_df,
                   vcf_file, file_opened, stdout, exit_code>>
    /\ FnUnchanged

\* lines 50-51: AttributeError, Can only use .str accessor with string values
CleanNoStrAccessor ==
    /\ pc = "clean"
    /\ \/ ~ObjectDtype(Column(df, "oncogenicity_classification"))
       \/ ~ObjectDtype(Column(df, "chromosome"))
    /\ Crash("AttributeError")

\* line 54
dropna(frame) ==
    SelectAt(frame, {i \in 1..Len(frame) : frame[i].date_last_evaluated # NaT})

DropNa ==
    /\ pc = "dropna"
    /\ df' = dropna(df)
    /\ pc' = "groupby"
    /\ UNCHANGED <<columns, csv, grouped, aggregated_data, aggregated_df,
                   vcf_file, file_opened, stdout, exit_code>>
    /\ FnUnchanged

group_columns == {"chromosome", "start", "reference_allele", "alternate_allele"}

\* line 57
GroupBy ==
    /\ pc = "groupby"
    /\ group_columns \subseteq columns
    /\ grouped' = groupby(df)
    /\ pc' = "aggregate"
    /\ UNCHANGED <<columns, csv, df, aggregated_data, aggregated_df,
                   vcf_file, file_opened, stdout, exit_code>>
    /\ FnUnchanged

\* line 57: KeyError for a grouping column the table does not have
GroupByKeyError ==
    /\ pc = "groupby"
    /\ ~(group_columns \subseteq columns)
    /\ Crash("KeyError")

\* lines 71-89: one pass of the loop
Aggregate ==
    /\ pc = "aggregate"
    /\ grouped # <<>>
    /\ "specimen_id" \in columns
    /\ LET group == get_group(df, Head(grouped))
       IN \E total_classifications \in
              format_total_classifications(Column(group, "oncogenicity_classification")) :
            aggregated_data' = Append(aggregated_data,
                                      AggregatedRow(group, total_classifications))
    /\ grouped' = Tail(grouped)
    /\ UNCHANGED <<pc, columns, csv, df, aggregated_df,
                   vcf_file, file_opened, stdout, exit_code>>
    /\ FnUnchanged

\* line 75: KeyError when the table has no specimen_id column
AggregateKeyError ==
    /\ pc = "aggregate"
    /\ grouped # <<>>
    /\ "specimen_id" \notin columns
    /\ Crash("KeyError")

aggregated_columns == {"chromosome", "start", "reference_allele", "alternate_allele",
                       "latest_classification", "latest_date", "latest_sample_id",
                       "total_classifications", "hgvs"}

\* line 91: the DataFrame of an empty list has no columns
DataFrame(data) ==
    [columns |-> IF data = <<>> THEN {} ELSE aggregated_columns, rows |-> data]

BuildFrame ==
    /\ pc = "aggregate"
    /\ grouped = <<>>
    /\ aggregated_df' = DataFrame(aggregated_data)
    /\ pc' = "sort"
    /\ UNCHANGED <<columns, csv, df, grouped, aggregated_data,
                   vcf_file, file_opened, stdout, exit_code>>
    /\ FnUnchanged

\* lines 100-104
SortedFrame(frame) ==
    [frame EXCEPT !.rows = sort_values([i \in 1..Len(frame.rows) |->
                        [frame.rows[i] EXCEPT !.chromosome = Categorical(@)]])]

Sort ==
    /\ pc = "sort"
    /\ "chromosome" \in aggregated_df.columns
    /\ aggregated_df' = SortedFrame(aggregated_df)
    /\ pc' = "open"
    /\ UNCHANGED <<columns, csv, df, grouped, aggregated_data,
                   vcf_file, file_opened, stdout, exit_code>>
    /\ FnUnchanged

\* line 102: KeyError, the frame has no chromosome column
SortKeyError ==
    /\ pc = "sort"
    /\ "chromosome" \notin aggregated_df.columns
    /\ Crash("KeyError")

\* lines 108-118
OpenAndWriteHeader ==
    /\ pc = "open"
    /\ file_opened' = TRUE
    /\ vcf_file' = vcf_header
    /\ pc' = "body"
    /\ UNCHANGED <<columns, csv, df, grouped, aggregated_data, aggregated_df,
                   stdout, exit_code>>
    /\ FnUnchanged

\* the rows of aggregated_df already written
Written == Len(vcf_file) - Len(vcf_header)

\* lines 121-132: one pass of the loop
WriteRow ==
    /\ pc = "body"
    /\ Written < Len(aggregated_df.rows)
    /\ vcf_file' = Append(vcf_file, body_line(aggregated_df.rows[Written + 1]))
    /\ UNCHANGED <<pc, columns, csv, df, grouped, aggregated_data, aggregated_df,
                   file_opened, stdout, exit_code>>
    /\ FnUnchanged

\* line 134 and the end of the script
Finish ==
    /\ pc = "body"
    /\ Written = Len(aggregated_df.rows)
    /\ stdout' = Append(stdout, <<"VCF file created as ", "haemonc_annotation_VCF_", ".vcf">>)
    /\ exit_code' = 0
    /\ pc' = "done"
    /\ UNCHANGED <<columns, csv, df, grouped, aggregated_data, aggregated_df,
                   vcf_file, file_opened>>
    /\ FnUnchanged

Next ==
    \/ LoadDateColumnAbsent
    \/ LoadMissingColumns
    \/ Load
    \/ Clean
    \/ CleanNoStrAccessor
    \/ DropNa
    \/ GroupBy
    \/ GroupByKeyError
    \/ Aggregate
    \/ AggregateKeyError
    \/ BuildFrame
    \/ Sort
    \/ SortKeyError
    \/ OpenAndWriteHeader
    \/ WriteRow
    \/ Finish

Spec == Init /\ [][Next]_vars

(***************************************************************************)
(* The two functions of lines 6-22 applied on their own to a series.       *)
(***************************************************************************)
Labels == {<<"P">>, <<"V">>, <<"L", "_", "B">>, NaN}

Annotations == {<<"c", "1">>, <<"c", "2">>, NaN}

SeriesOver(values, n) == UNION {[1..k -> values] : k \in 0..n}

InitFn ==
    /\ pc = "call"
    /\ columns = AllColumns
    /\ csv = <<>>
    /\ df = <<>>
    /\ grouped = <<>>
    /\ aggregated_data = <<>>
    /\ aggregated_df = NoFrame
    /\ vcf_file = <<>>
    /\ file_opened = FALSE
    /\ stdout = <<>>
    /\ exit_code = Running
    /\ fn_result = <<>>
    /\ \/ fn = "format_total_classifications" /\ fn_arg \in SeriesOver(Labels, MaxLen)
       \/ fn = "aggregate_hgvs" /\ fn_arg \in SeriesOver(Annotations, MaxLen)

RunUnchanged == UNCHANGED <<columns, csv, df, grouped, aggregated_data, aggregated_df,
                            vcf_file, file_opened, stdout, exit_code>>

\* lines 6-13
CallFormatTotalClassifications ==
    /\ pc = "call"
    /\ fn = "format_total_classifications"
    /\ fn_result' \in format_total_classifications(fn_arg)
    /\ pc' = "returned"
    /\ UNCHANGED <<fn, fn_arg>>
    /\ RunUnchanged

\* lines 16-22
CallAggregateHgvs ==
    /\ pc = "call"
    /\ fn = "aggregate_hgvs"
    /\ fn_result' = aggregate_hgvs(fn_arg)
    /\ pc' = "returned"
    /\ UNCHANGED <<fn, fn_arg>>
    /\ RunUnchanged

NextFn == CallFormatTotalClassifications \/ CallAggregateHgvs

SpecFn == InitFn /\ [][NextFn]_vars

(***************************************************************************)
(* Lines 49-132 as a function of the table: the files a run that reaches   *)
(* the end can write.                                                      *)
(***************************************************************************)
RECURSIVE AggregateAll(_, _)
AggregateAll(frame, keys) ==
    IF keys = <<>> THEN {<<>>}
    ELSE LET group == get_group(frame, Head(keys))
         IN {<<AggregatedRow(group, total_classifications)>> \o rest :
               total_classifications \in
                 format_total_classifications(Column(group, "oncogenicity_classification")),
               rest \in AggregateAll(frame, Tail(keys))}

RunOutputs(table) ==
    LET frame == dropna([i \in 1..Len(table) |->
                   CleanRow([name \in DOMAIN table[i] \cup {"index"} |->
                               IF name = "index" THEN i - 1 ELSE table[i][name]])])
    IN {vcf_header \o [n \in 1..Len(data) |-> body_line(SortedFrame(DataFrame(data)).rows[n])] :
          data \in AggregateAll(frame, groupby(frame))}

(***************************************************************************)
(* Reading the output back, and the groups of the input, for the claims.   *)
(***************************************************************************)
\* Python's "".split gives one empty part; a summary string has no entry then
Entries(text) == IF text = <<>> THEN <<>> ELSE Split(text, "|")

Positions(text, c) == {i \in 1..Len(text) : text[i] = c}

Max(S) == CHOOSE x \in S : \A y \in S : y <= x
Min(S) == CHOOSE x \in S : \A y \in S : x <= y

\* label(count): the label, and the count, of one entry of a TC string
EntryWellFormed(e) ==
    /\ Positions(e, "(") # {}
    /\ e[Len(e)] = ")"
    /\ Max(Positions(e, "(")) < Len(e) - 1
    /\ \A i \in (Max(Positions(e, "(")) + 1)..(Len(e) - 1) : IsDigit(e[i])

EntryLabel(e) == SubSeq(e, 1, Max(Positions(e, "(")) - 1)

EntryCount(e) == ParseNat(SubSeq(e, Max(Positions(e, "(")) + 1, Len(e) - 1))

RECURSIVE SumSeq(_)
SumSeq(s) == IF s = <<>> THEN 0 ELSE Head(s) + SumSeq(Tail(s))

FirstPos(series, v) == Min({i \in 1..Len(series) : series[i] = v})

Present(series) == {series[i] : i \in {j \in 1..Len(series) : series[j] # NaN}}

\* the body lines of the file: the lines after the column header line
ColumnHeader == vcf_header[Len(vcf_header)]

BodyLines ==
    IF \E i \in 1..Len(vcf_file) : vcf_file[i] = ColumnHeader
    THEN SubSeq(vcf_file, 1 + Min({i \in 1..Len(vcf_file) : vcf_file[i] = ColumnHeader}),
                Len(vcf_file))
    ELSE <<>>

Fields(line) == Split(line, Tab)

\* CHROM, POS, REF, ALT of a body line
LineKey(line) == LET f == Fields(line) IN <<f[1], f[2], f[4], f[5]>>

InfoItems(line) == Split(Fields(line)[8], ";")

ItemKey(item) ==
    IF Positions(item, "=") = {} THEN item ELSE SubSeq(item, 1, Min(Positions(item, "=")) - 1)

ItemValue(item) ==
    IF Positions(item, "=") = {} THEN <<>>
    ELSE SubSeq(item, Min(Positions(item, "=")) + 1, Len(item))

InfoKeys(line) ==
    LET items == InfoItems(line) IN [i \in 1..Len(items) |-> ItemKey(items[i])]

InfoValue(line, key) ==
    LET items == InfoItems(line)
    IN ItemValue(items[Min({i \in 1..Len(items) : ItemKey(items[i]) = key})])

\* the IDs of the ##INFO lines of the header of the file
DeclaredKeys ==
    {vcf_file[i][2] : i \in {j \in 1..Len(vcf_file) : vcf_file[j][1] = "##INFO=<ID="}}

\* the input rows that have a date
Dated == {i \in 1..Len(csv) : csv[i].date_last_evaluated # NaT}

\* the key of an input row after the clean-up of lines 50-51
NormKey(r) == <<str_replace(r.chromosome, " ", <<>>), r.start,
                r.reference_allele, r.alternate_allele>>

NormClass(r) == str_replace(r.oncogenicity_classification, " ", <<"_">>)

\* the groups of the dated rows, by key
GroupKeys == {NormKey(csv[i]) : i \in {j \in Dated : HasKey(csv[j])}}

Members(k) == {i \in Dated : HasKey(csv[i]) /\ NormKey(csv[i]) = k}

\* the first row, in the order of the input, that holds the latest date of a group
LatestOf(G) ==
    Min({i \in G : \A j \in G : csv[j].date_last_evaluated <= csv[i].date_last_evaluated})

Rank(chrom) ==
    IF chrom \in Range(chromosome_order)
    THEN CHOOSE i \in 1..Len(chromosome_order) : chromosome_order[i] = chrom
    ELSE Len(chromosome_order) + 1

\* a key as a body line shows it: a chromosome outside chromosome_order is
\* written as nan
WrittenKey(k) == <<(IF Rank(k[1]) <= Len(chromosome_order) THEN k[1] ELSE <<"n", "a", "n">>),
                   Digits(k[2]), k[3], k[4]>>

LC == <<"L", "C">>
LCD == <<"L", "C", "D">>
LCS == <<"L", "C", "S">>
TC == <<"T", "C">>
HGVS == <<"H", "G", "V", "S">>

(***************************************************************************)
(* C1: every group of dated rows has an output row whose LC, LCD and LCS   *)
(* are those of one record of the group, the first record in input order   *)
(* among those that hold the latest date of the group.                     *)
(***************************************************************************)
TheoremC1 ==
    pc = "done" =>
      LET body == BodyLines
          keys == [n \in 1..Len(body) |-> LineKey(body[n])]
      IN /\ Len(body) = Cardinality(GroupKeys)
         /\ \A k \in GroupKeys :
              \E n \in 1..Len(body) :
                LET r == csv[LatestOf(Members(k))]
                IN /\ keys[n] = WrittenKey(k)
                   /\ InfoValue(body[n], LC) = Str(NormClass(r))
                   /\ InfoValue(body[n], LCD) = strftime(r.date_last_evaluated)
                   /\ InfoValue(body[n], LCS) = Str(r.specimen_id)

\* a finished run on a group in which two records hold the latest date and
\* differ in classification and specimen, the first of them being the one shown
WitnessC1 ==
    /\ pc = "done"
    /\ \E k \in GroupKeys : \E i, j \in Members(k) :
         /\ i < j
         /\ i = LatestOf(Members(k))
         /\ csv[i].date_last_evaluated = csv[j].date_last_evaluated
         /\ csv[i].oncogenicity_classification # csv[j].oncogenicity_classification
         /\ csv[i].specimen_id # csv[j].specimen_id
         /\ \E n \in 1..Len(BodyLines) :
              /\ InfoValue(BodyLines[n], LC) = Str(NormClass(csv[i]))
              /\ InfoValue(BodyLines[n], LCS) = Str(csv[i].specimen_id)

(***************************************************************************)
(* C5: the body lines are in non-decreasing order of chromosome under the  *)
(* sequence 1..22, X, Y and, within a chromosome, of start; the rows whose *)
(* chromosome is outside that sequence come after all the others.          *)
(***************************************************************************)
LineRank(line) == Rank(Fields(line)[1])
LinePos(line) == ParseNat(Fields(line)[2])

TheoremC5 ==
    LET body == BodyLines
        rank == [n \in 1..Len(body) |-> LineRank(body[n])]
        pos == [n \in 1..Len(body) |-> LinePos(body[n])]
    IN /\ \A i, j \in 1..Len(body) :
            i < j =>
              \/ rank[i] < rank[j]
              \/ /\ rank[i] = rank[j]
                 /\ rank[i] <= Len(chromosome_order) => pos[i] <= pos[j]
       /\ pc = "done" =>
            Cardinality({n \in 1..Len(body) : rank[n] > Len(chromosome_order)})
              = Cardinality({k \in GroupKeys : Rank(k[1]) > Len(chromosome_order)})

\* a finished run that wrote chromosome 2 before chromosome 10 and a row of
\* a chromosome outside the sequence last
WitnessC5 ==
    /\ pc = "done"
    /\ Len(BodyLines) = 3
    /\ Fields(BodyLines[1])[1] = <<"2">>
    /\ Fields(BodyLines[2])[1] = <<"1", "0">>
    /\ LineRank(BodyLines[3]) > Len(chromosome_order)
    /\ \E k \in GroupKeys : k[1] = <<"M">>

(***************************************************************************)
(* C10: aggregate_hgvs returns the non-missing values of the series joined *)
(* by |, every distinct value once, in the order of first occurrence, and  *)
(* no missing value.                                                       *)
(***************************************************************************)
TheoremC10 ==
    (pc = "returned" /\ fn = "aggregate_hgvs") =>
      LET parts == Entries(fn_result)
      IN /\ Range(parts) = Present(fn_arg)
         /\ Len(parts) = Cardinality(Present(fn_arg))
         /\ \A i, j \in 1..Len(parts) :
              i < j => FirstPos(fn_arg, parts[i]) < FirstPos(fn_arg, parts[j])

\* a call on a series with a missing value, a repeated value and two
\* distinct values, the later of the two labels first
WitnessC10 ==
    /\ pc = "returned"
    /\ fn = "aggregate_hgvs"
    /\ fn_arg = <<NaN, <<"c", "2">>, <<"c", "1">>, <<"c", "2">> >>
    /\ fn_result = <<"c", "2", "|", "c", "1">>

(***************************************************************************)
(* C2: a run on the same rows in another order writes the same file.  The  *)
(* file this run wrote is one a run on any reordering of the table can     *)
(* write.                                                                  *)
(***************************************************************************)
Reorderings(n) == {p \in [1..n -> 1..n] : \A i, j \in 1..n : i # j => p[i] # p[j]}

ClaimC2 ==
    pc = "done" =>
      \A p \in Reorderings(Len(csv)) :
        vcf_file \in RunOutputs([i \in 1..Len(csv) |-> csv[p[i]]])

(***************************************************************************)
(* C3: every dated input row contributes to exactly one output row, the    *)
(* one that carries its key; every output row comes from a non-empty group *)
(* of dated rows; no two output rows share a key.                          *)
(***************************************************************************)
ClaimC3 ==
    pc = "done" =>
      LET body == BodyLines
          keys == [n \in 1..Len(body) |-> LineKey(body[n])]
      IN /\ \A i \in Dated :
              Cardinality({n \in 1..Len(body) : keys[n] = WrittenKey(NormKey(csv[i]))}) = 1
         /\ \A n \in 1..Len(body) :
              \E i \in Dated : keys[n] = WrittenKey(NormKey(csv[i]))
         /\ \A n, m \in 1..Len(body) : n # m => keys[n] # keys[m]

(***************************************************************************)
(* C4: the counts parsed back out of the TC string of an output row add up *)
(* to the number of dated input rows of the group of that row.             *)
(***************************************************************************)
ClaimC4 ==
    pc = "done" =>
      LET body == BodyLines
      IN \A n \in 1..Len(body) :
           LET entries == Entries(InfoValue(body[n], TC))
           IN /\ \A e \in 1..Len(entries) : EntryWellFormed(entries[e])
              /\ SumSeq([e \in 1..Len(entries) |-> EntryCount(entries[e])])
                   = Cardinality({i \in Dated :
                                    /\ HasKey(csv[i])
                                    /\ WrittenKey(NormKey(csv[i])) = LineKey(body[n])})

(***************************************************************************)
(* C6: the INFO field of every body line holds exactly the keys the header *)
(* declares, each once, and a value that is missing for the group is       *)
(* written as a dot, never left empty.                                     *)
(***************************************************************************)
Dot == <<".">>

ClaimC6 ==
    LET body == BodyLines
        keys == [n \in 1..Len(body) |-> LineKey(body[n])]
    IN /\ \A n \in 1..Len(body) :
            /\ Range(InfoKeys(body[n])) = DeclaredKeys
            /\ Len(InfoKeys(body[n])) = Cardinality(DeclaredKeys)
            /\ \A i \in 1..Len(InfoItems(body[n])) : ItemValue(InfoItems(body[n])[i]) # <<>>
       /\ pc = "done" =>
            \A k \in GroupKeys :
              \E n \in 1..Len(body) :
                /\ keys[n] = WrittenKey(k)
                /\ csv[LatestOf(Members(k))].specimen_id = NaN
                     => InfoValue(body[n], LCS) = Dot
                /\ (\A i \in Members(k) : csv[i].hgvsc = NaN)
                     => InfoValue(body[n], HGVS) = Dot

(***************************************************************************)
(* C7: when a required column is absent the run ends in the handled error  *)
(* with a nonzero exit code, its message names every absent required       *)
(* column, and the output file is never opened.                            *)
(***************************************************************************)
ClaimC7 ==
    missing_columns # <<>> =>
      \/ pc = "load"
      \/ /\ pc = "exited"
         /\ exit_code = 1
         /\ \A i \in 1..Len(missing_columns) :
              missing_columns[i] \in Range(stdout[Len(stdout)])
         /\ ~file_opened
         /\ vcf_file = <<>>

(***************************************************************************)
(* C8: a table that has all the required columns never aborts the run,     *)
(* also when no row has a date; the run ends with exit code 0 and a file   *)
(* that holds the header.                                                  *)
(***************************************************************************)
ClaimC8 ==
    missing_columns = <<>> =>
      /\ pc \notin {"exited", "crashed"}
      /\ pc = "done" => /\ exit_code = 0
                        /\ file_opened
                        /\ SubSeq(vcf_file, 1, Len(vcf_header)) = vcf_header

RunOutputsAgree == pc = "done" => vcf_file \in RunOutputs(csv)

====
